---- MODULE Spec2Model ----
(***************************************************************************)
(* Model of methods.py: the TimeArrStorage timing/verification wrapper and *)
(* the adapters of the enabled METHODS catalog.                            *)
(*                                                                         *)
(* Files are sequences of bytes (0..255).  An array is a record            *)
(* [dtype, shape, flat]: flat holds the elements in row-major order.  An   *)
(* element is a natural number; for float64 it stands for the 64-bit word  *)
(* of the double.  The source is Python 2 (bytes.format, str(readline())). *)
(***************************************************************************)
EXTENDS Integers, Sequences, FiniteSets, TLC

\* ------------------------------------------------------------------ bounds

\* Harness calls (time_save / time_load) made in one behaviour.
MaxCalls == 2
\* Largest number of clock ticks one blocking call (save, load, remove) takes.
MaxTick == 2

\* ------------------------------------------------------------ byte helpers

\* The content of a path that does not exist (no byte is negative).
NoFile == <<-1>>
\* No exception.
NoExc == <<>>

\* The concatenation of a sequence of sequences (by halves, which keeps the
\* recursion shallow).
RECURSIVE Concat(_)
Concat(ss) ==
    IF ss = <<>> THEN <<>>
    ELSE IF Len(ss) = 1 THEN ss[1]
    ELSE Concat(SubSeq(ss, 1, Len(ss) \div 2))
             \o Concat(SubSeq(ss, Len(ss) \div 2 + 1, Len(ss)))

RECURSIVE SumSeq(_)
SumSeq(s) ==
    IF s = <<>> THEN 0
    ELSE IF Len(s) = 1 THEN s[1]
    ELSE SumSeq(SubSeq(s, 1, Len(s) \div 2)) + SumSeq(SubSeq(s, Len(s) \div 2 + 1, Len(s)))

\* '{:d}'.format(n): decimal digits, no padding.
RECURSIVE Dec(_)
Dec(n) == IF n < 10 THEN <<48 + n>> ELSE Dec(n \div 10) \o <<48 + (n % 10)>>

IsDigits(tok) == tok # <<>> /\ \A i \in 1..Len(tok) : tok[i] \in 48..57

\* int(token) for a token of decimal digits.
RECURSIVE ParseInt(_)
ParseInt(tok) ==
    IF tok = <<>> THEN 0
    ELSE 10 * ParseInt(SubSeq(tok, 1, Len(tok) - 1)) + (tok[Len(tok)] - 48)

\* Little-endian bytes of v in w bytes, and back.
RECURSIVE LE(_, _)
LE(v, w) == IF w = 0 THEN <<>> ELSE <<v % 256>> \o LE(v \div 256, w - 1)

RECURSIVE FromLE(_)
FromLE(bs) == IF bs = <<>> THEN 0 ELSE bs[1] + 256 * FromLE(Tail(bs))

Whitespace == {9, 10, 11, 12, 13, 32}

\* str.split(): the maximal runs of non-whitespace bytes.
RECURSIVE SplitFrom(_, _, _)
SplitFrom(s, i, cur) ==
    IF i > Len(s) THEN (IF cur = <<>> THEN <<>> ELSE <<cur>>)
    ELSE IF s[i] \in Whitespace
         THEN (IF cur = <<>> THEN <<>> ELSE <<cur>>) \o SplitFrom(s, i + 1, <<>>)
         ELSE SplitFrom(s, i + 1, Append(cur, s[i]))

Split(s) == SplitFrom(s, 1, <<>>)

\* fh.readline(): the bytes up to and including the first newline.
LineEnd(s) ==
    IF \E i \in 1..Len(s) : s[i] = 10
    THEN CHOOSE i \in 1..Len(s) : s[i] = 10 /\ \A j \in 1..(i - 1) : s[j] # 10
    ELSE Len(s)

ReadLine(s) == SubSeq(s, 1, LineEnd(s))
AfterLine(s) == SubSeq(s, LineEnd(s) + 1, Len(s))

\* ------------------------------------------------------------------ arrays

Dtypes == {"uint8", "float64"}

ItemSize(dt) == IF dt = "uint8" THEN 1 ELSE 8

\* str(arr.dtype) as ASCII.
DtypeName(dt) ==
    IF dt = "uint8" THEN <<117, 105, 110, 116, 56>>
    ELSE <<102, 108, 111, 97, 116, 54, 52>>

KnownDtype(tok) == \E dt \in Dtypes : DtypeName(dt) = tok
DtypeOf(tok) == CHOOSE dt \in Dtypes : DtypeName(dt) = tok

\* arr[k, :] of a 2-D array.
Row(arr, k) == SubSeq(arr.flat, (k - 1) * arr.shape[2] + 1, k * arr.shape[2])

\* arr.data: the elements' bytes in row-major order.
Data(arr) == Concat([k \in 1..Len(arr.flat) |-> LE(arr.flat[k], ItemSize(arr.dtype))])

\* numpy.frombuffer(bytes, dtype), for a length that is a multiple of the
\* item size (anything else is a ValueError, see the callers).
FromBuffer(bs, dt) ==
    LET w == ItemSize(dt) IN
    [k \in 1..(Len(bs) \div w) |-> FromLE(SubSeq(bs, (k - 1) * w + 1, k * w))]

\* numpy.array_equal: same shape and the same values (dtype is not compared).
array_equal(a, b) == a.shape = b.shape /\ a.flat = b.flat

\* arr.sum()
Sum(arr) == SumSeq(arr.flat)

Pattern == <<0, 10, 32, 255, 7, 44>>

Fill(seed, n) == [k \in 1..n |-> Pattern[((k + seed) % Len(Pattern)) + 1]]

MkArray(dt, r, c, seed) == [dtype |-> dt, shape |-> <<r, c>>, flat |-> Fill(seed, r * c)]

\* The 2-D arrays the harness constructs.
Arrays ==
    { MkArray("float64", 4, 3, 0), MkArray("float64", 5, 2, 2),
      MkArray("uint8", 1, 12, 3) }

\* What a failed load leaves in the local variable arr.
NoArray == [dtype |-> "none", shape |-> <<>>, flat |-> <<>>]

Loaded(a) == [arr |-> a, exc |-> NoExc]
Failed(e) == [arr |-> NoArray, exc |-> e]

\* ------------------------------------------------- raw binary with a header

\* The two dimensions written in the other order.
Header_swapped(arr) ==
    DtypeName(arr.dtype) \o <<32>> \o Dec(arr.shape[2]) \o <<32>>
        \o Dec(arr.shape[1]) \o <<10>>

\* '{0:s} {1:d} {2:d}\n'.format(arr.dtype, *arr.shape)
Header(arr) ==
    DtypeName(arr.dtype) \o <<32>> \o Dec(arr.shape[1]) \o <<32>>
        \o Dec(arr.shape[2]) \o <<10>>

\* dtype, w, h = str(line).split(); frombuffer(payload, dtype).reshape((int(w), int(h)))
ParseWithHeader(line, payload) ==
    LET toks == Split(line) IN
    IF Len(toks) # 3 THEN Failed(<<"ValueError", "unpack">>)
    ELSE IF ~KnownDtype(toks[1]) THEN Failed(<<"TypeError", "dtype">>)
    ELSE IF ~(IsDigits(toks[2]) /\ IsDigits(toks[3])) THEN Failed(<<"ValueError", "int">>)
    ELSE LET dt == DtypeOf(toks[1])
             w == ParseInt(toks[2])
             h == ParseInt(toks[3])
         IN IF Len(payload) % ItemSize(dt) # 0 THEN Failed(<<"ValueError", "frombuffer">>)
            ELSE IF Len(payload) \div ItemSize(dt) # w * h
                 THEN Failed(<<"ValueError", "reshape">>)
                 ELSE Loaded([dtype |-> dt, shape |-> <<w, h>>,
                              flat |-> FromBuffer(payload, dt)])

Binary_encode(arr) == Header(arr) \o Data(arr)
Binary_decode(bs) == ParseWithHeader(ReadLine(bs), AfterLine(bs))

\* ------------------------------------------------------------------ base64

B64Char(x) ==
    IF x < 26 THEN 65 + x
    ELSE IF x < 52 THEN 97 + (x - 26)
    ELSE IF x < 62 THEN 48 + (x - 52)
    ELSE IF x = 62 THEN 45 ELSE 95

IsB64Char(c) == c \in (65..90) \cup (97..122) \cup (48..57) \cup {45, 95}

B64Val(c) ==
    IF c \in 65..90 THEN c - 65
    ELSE IF c \in 97..122 THEN c - 97 + 26
    ELSE IF c \in 48..57 THEN c - 48 + 52
    ELSE IF c = 45 THEN 62
    ELSE IF c = 95 THEN 63 ELSE 0

\* urlsafe_b64encode: 3 bytes to 4 characters, '=' padding.
urlsafe_b64encode(bs) ==
    LET n == Len(bs)
        at(j) == IF j <= n THEN bs[j] ELSE 0
        word(g) == at(3 * g + 1) * 65536 + at(3 * g + 2) * 256 + at(3 * g + 3)
        sextet(g, k) ==
            CASE k = 0 -> word(g) \div 262144
              [] k = 1 -> (word(g) \div 4096) % 64
              [] k = 2 -> (word(g) \div 64) % 64
              [] OTHER -> word(g) % 64
        char(i) ==
            LET g == (i - 1) \div 4
                k == (i - 1) % 4
            IN IF k >= 2 /\ 3 * g + k > n THEN 61 ELSE B64Char(sextet(g, k))
    IN [i \in 1..(4 * ((n + 2) \div 3)) |-> char(i)]

B64Valid(cs) ==
    /\ Len(cs) % 4 = 0
    /\ \A i \in 1..Len(cs) :
          IsB64Char(cs[i]) \/ (cs[i] = 61 /\ i >= Len(cs) - 1
                                /\ \A j \in i..Len(cs) : cs[j] = 61)

\* urlsafe_b64decode of a well-padded text.
urlsafe_b64decode(cs) ==
    LET n == Len(cs)
        pad == Cardinality({i \in 1..n : cs[i] = 61})
        word(g) == B64Val(cs[4 * g + 1]) * 262144 + B64Val(cs[4 * g + 2]) * 4096
                   + B64Val(cs[4 * g + 3]) * 64 + B64Val(cs[4 * g + 4])
        byte(j) ==
            LET g == (j - 1) \div 3
                m == (j - 1) % 3
            IN CASE m = 0 -> word(g) \div 65536
                 [] m = 1 -> (word(g) \div 256) % 256
                 [] OTHER -> word(g) % 256
    IN [j \in 1..(3 * (n \div 4) - pad) |-> byte(j)]

b64Enc_encode(arr) == Header(arr) \o urlsafe_b64encode(Data(arr))

b64Enc_decode(bs) ==
    IF ~B64Valid(AfterLine(bs)) THEN Failed(<<"TypeError", "padding">>)
    ELSE ParseWithHeader(ReadLine(bs), urlsafe_b64decode(AfterLine(bs)))

\* -------------------------------------------------------- delimited text

Zeros(n) == [i \in 1..n |-> 48]

\* '%.18e' % v (savetxt's default fmt) for a whole number v: one digit, '.',
\* 18 digits, 'e+', a two-digit exponent.
Fmt_e18(v) ==
    LET d == Dec(v)
        e == Len(d) - 1
    IN <<d[1]>> \o <<46>> \o Tail(d) \o Zeros(18 - e)
           \o <<101, 43, 48 + (e \div 10), 48 + (e % 10)>>

\* float(token) for a token Fmt_e18 wrote.
ParseFloat(tok) ==
    LET e == ParseInt(SubSeq(tok, 23, 24))
        digits == <<tok[1]>> \o SubSeq(tok, 3, 20)
    IN ParseInt(SubSeq(digits, 1, e + 1))

IsFloatToken(tok) ==
    /\ Len(tok) = 24
    /\ tok[2] = 46 /\ tok[21] = 101 /\ tok[22] = 43
    /\ IsDigits(<<tok[1]>> \o SubSeq(tok, 3, 20) \o SubSeq(tok, 23, 24))

RECURSIVE Join(_, _)
Join(toks, sep) ==
    IF Len(toks) = 1 THEN toks[1] ELSE toks[1] \o <<sep>> \o Join(Tail(toks), sep)

\* s.split(sep): every field, empty ones included.
SplitOn(s, sep) ==
    LET at == {i \in 1..Len(s) : s[i] = sep}
        \* the k-th separator; 0 before the first, Len(s) + 1 after the last
        pos(k) == IF k = 0 THEN 0
                  ELSE IF k > Cardinality(at) THEN Len(s) + 1
                  ELSE CHOOSE i \in at : Cardinality({j \in at : j < i}) = k - 1
    IN [k \in 1..(Cardinality(at) + 1) |-> SubSeq(s, pos(k - 1) + 1, pos(k) - 1)]

\* The lines of a text, without their newlines; a final newline ends the
\* last line.
Lines(s) ==
    LET parts == SplitOn(s, 10)
    IN IF parts[Len(parts)] = <<>> THEN SubSeq(parts, 1, Len(parts) - 1) ELSE parts

\* savetxt(fh, arr, delimiter=','): one line per row.
savetxt(arr) ==
    Concat([k \in 1..arr.shape[1] |->
        Join([j \in 1..arr.shape[2] |-> Fmt_e18(Row(arr, k)[j])], 44) \o <<10>>])

\* numpy.squeeze on a shape: the axes of length 1 are dropped.
squeeze(shape) == SelectSeq(shape, LAMBDA n : n # 1)

\* loadtxt(fh, delimiter=','): float64; ndmin is left at its default 0, so
\* the result is squeezed.
loadtxt(bs) ==
    LET rows == [k \in 1..Len(Lines(bs)) |-> SplitOn(Lines(bs)[k], 44)] IN
    IF rows = <<>> THEN Loaded([dtype |-> "float64", shape |-> <<0>>, flat |-> <<>>])
    ELSE IF \E k \in 1..Len(rows) : \E j \in 1..Len(rows[k]) : ~IsFloatToken(rows[k][j])
         THEN Failed(<<"ValueError", "float">>)
    ELSE IF \E k \in 1..Len(rows) : Len(rows[k]) # Len(rows[1])
         THEN Failed(<<"ValueError", "columns">>)
    ELSE Loaded([dtype |-> "float64",
                 shape |-> squeeze(<<Len(rows), Len(rows[1])>>),
                 flat |-> Concat([k \in 1..Len(rows) |->
                            [j \in 1..Len(rows[k]) |-> ParseFloat(rows[k][j])]])])

\* ---------------------------------------------- unformatted Fortran records

\* FortranFile.writeReals(row, prec='d'): the byte length as a 4-byte
\* integer, the doubles, the byte length again.
writeReals(row) ==
    LE(8 * Len(row), 4) \o Concat([j \in 1..Len(row) |-> LE(row[j], 8)])
        \o LE(8 * Len(row), 4)

\* Whether readReals succeeds at the start of bs: both length marks and the
\* data between them are there and the marks agree (IOError otherwise).
CanReadReals(bs) ==
    /\ Len(bs) >= 4
    /\ Len(bs) >= 8 + FromLE(SubSeq(bs, 1, 4))
    /\ SubSeq(bs, 5 + FromLE(SubSeq(bs, 1, 4)), 8 + FromLE(SubSeq(bs, 1, 4)))
          = SubSeq(bs, 1, 4)

RecordLen(bs) == 8 + FromLE(SubSeq(bs, 1, 4))

\* FortranFile.readReals(prec='d') on a readable record.
readReals(bs) == FromBuffer(SubSeq(bs, 5, RecordLen(bs) - 4), "float64")

\* numpy.array(rows) for rows of one length.
array(rows) ==
    IF rows = <<>> THEN [dtype |-> "float64", shape |-> <<0>>, flat |-> <<>>]
    ELSE [dtype |-> "float64", shape |-> <<Len(rows), Len(rows[1])>>,
          flat |-> Concat(rows)]

\* ------------------------------------------------------------------- gzip

GzMagic == <<31, 139>>

\* What GzipFile.close() writes after the compressed stream: a checksum of
\* the uncompressed bytes and their count (each one byte here).
GzTrailer(raw) == <<SumSeq(raw) % 256, Len(raw) % 256>>

\* A complete gzip stream is the magic, the (lossless) stream and a trailer
\* that matches it.
GzComplete(bs) ==
    /\ Len(bs) >= 4
    /\ SubSeq(bs, 1, 2) = GzMagic
    /\ SubSeq(bs, Len(bs) - 1, Len(bs)) = GzTrailer(SubSeq(bs, 3, Len(bs) - 2))

GzBody(bs) == SubSeq(bs, 3, Len(bs) - 2)

\* ------------------------------------------------------ library containers

\* The codec libraries (json_tricks, pickle, numpy .npy/.npz, imgarray,
\* scipy.io) are outside the repository: each is taken as a lossless,
\* self-describing container, a magic byte of its own before the type, the
\* shape and the elements.
Magic(cls) ==
    CASE cls \in {"JSON", "JSONGzip"} -> <<123>>
      [] cls \in {"Pickle", "PickleGzip"} -> <<128>>
      [] cls = "NPY" -> <<147>>
      [] cls = "NPYCompr" -> <<80>>
      [] cls = "PNG" -> <<137>>
      [] OTHER -> <<77>>

Lib_encode(cls, arr) == Magic(cls) \o Binary_encode(arr)

Lib_decode(cls, bs) ==
    IF Len(bs) < 1 \/ SubSeq(bs, 1, 1) # Magic(cls) THEN Failed(<<"ValueError", "format">>)
    ELSE Binary_decode(Tail(bs))

\* --------------------------------------------------------- file handles

\* A handle the adapter holds inside a with block.  file is what the
\* operating system holds for the path (what getsize and a later open see),
\* disk what has reached the storage device, buf the handle's own buffer,
\* raw the uncompressed bytes written through a gzip handle.  open counts
\* the adapter's handles that are not closed, synced says that sync(fh) ran
\* on the handle the data was written through, raised is the first error
\* the codec or the file I/O raised, exc the exception now propagating.
OpenW(fs, gz) ==
    [file |-> <<>>, disk |-> fs.disk, buf |-> IF gz THEN GzMagic ELSE <<>>,
     raw |-> <<>>, gz |-> gz, mode |-> "w", open |-> 1, synced |-> FALSE,
     raised |-> NoExc, exc |-> NoExc]

OpenR(fs, gz) ==
    [file |-> fs.file, disk |-> fs.disk, buf |-> <<>>, raw |-> <<>>, gz |-> gz,
     mode |-> "r", open |-> 1, synced |-> FALSE, raised |-> NoExc, exc |-> NoExc]

\* open() itself failed: no handle.
NotOpened(fs, e) ==
    [file |-> fs.file, disk |-> fs.disk, buf |-> <<>>, raw |-> <<>>, gz |-> FALSE,
     mode |-> "-", open |-> 0, synced |-> FALSE, raised |-> e, exc |-> e]

Raise(h, e) == [h EXCEPT !.exc = e, !.raised = IF @ = NoExc THEN e ELSE @]

\* The codec writes bytes through the handle, or raises.
Write(h, bytes, fail) ==
    IF h.exc # NoExc THEN h
    ELSE IF fail = "codec" THEN Raise(h, <<"CodecError", "save">>)
    ELSE [h EXCEPT !.buf = @ \o bytes, !.raw = @ \o bytes]

\* sync(fh): fh.flush() hands the buffer to the operating system, then
\* fsync(fh.fileno()) forces the file to the device (or raises).
sync(h, fail) ==
    IF h.exc # NoExc THEN h
    ELSE LET flushed == [h EXCEPT !.file = @ \o h.buf, !.buf = <<>>] IN
         IF fail = "sync" THEN Raise(flushed, <<"OSError", "fsync">>)
         ELSE [flushed EXCEPT !.disk = flushed.file, !.synced = (h.raw # <<>>)]

\* The handle closes and nothing else: what a with block's exit would be if
\* it ran only when the body returns.
WithExit_onReturnOnly(h) ==
    IF h.exc # NoExc THEN h
    ELSE [h EXCEPT !.file = IF h.mode = "w"
                            THEN @ \o h.buf \o (IF h.gz THEN GzTrailer(h.raw) ELSE <<>>)
                            ELSE @,
                   !.buf = <<>>, !.open = 0]

\* The exit of a with block, on return and on an exception alike: the handle
\* closes.  Closing a handle opened for writing flushes its buffer (no
\* fsync); closing a gzip handle first writes the trailer.
WithExit(h) ==
    [h EXCEPT !.file = IF h.mode = "w"
                       THEN @ \o h.buf \o (IF h.gz THEN GzTrailer(h.raw) ELSE <<>>)
                       ELSE @,
              !.buf = <<>>, !.open = 0]

\* What a save leaves behind.
Saved(h) == [file |-> h.file, disk |-> h.disk, open |-> h.open, synced |-> h.synced,
             raised |-> h.raised, exc |-> h.exc]

\* with open(pth, 'w+') as fh: <codec writes bytes to fh>; sync(fh)
save_with(fs, gz, bytes, fail) ==
    IF fail = "open" THEN Saved(NotOpened(fs, <<"IOError", "open">>))
    ELSE Saved(WithExit(sync(Write(OpenW(fs, gz), bytes, fail), fail)))

\* jt_dump(arr, pth, force_flush=True): the library opens the path, writes,
\* flushes and fsyncs its own handle and closes it; the adapter holds none.
jt_dump(fs, bytes, fail) ==
    CASE fail = "open" -> Saved(NotOpened(fs, <<"IOError", "open">>))
      [] fail = "codec" -> Saved(NotOpened(fs, <<"CodecError", "save">>))
      [] fail = "sync" ->
            Saved([NotOpened(fs, <<"OSError", "fsync">>) EXCEPT !.file = bytes])
      [] OTHER ->
            Saved([NotOpened(fs, NoExc) EXCEPT !.file = bytes, !.disk = bytes,
                                               !.synced = TRUE])

\* save_array_img(arr, pth, img_format='png'): the library writes the path
\* through a handle of its own and closes it; fh is not written to.
save_array_img(h, bytes, fail) ==
    IF h.exc # NoExc THEN h
    ELSE IF fail = "codec" THEN Raise(h, <<"CodecError", "save">>)
    ELSE [h EXCEPT !.file = bytes]

\* ------------------------------------------------------------ the adapters

METHODS ==
    {"Csv", "CsvGzip", "JSON", "JSONGzip", "b64Enc", "Pickle", "PickleGzip",
     "Binary", "BinaryGzip", "NPY", "NPYCompr", "PNG", "FortUnf", "MatFile"}

SaveFails == {"none", "open", "codec", "sync"}
LoadFails == {"none", "read"}

Csv_save(arr, fs, fail) == save_with(fs, FALSE, savetxt(arr), fail)
CsvGzip_save(arr, fs, fail) == save_with(fs, TRUE, savetxt(arr), fail)
JSON_save(arr, fs, fail) == jt_dump(fs, Lib_encode("JSON", arr), fail)
JSONGzip_save(arr, fs, fail) == jt_dump(fs, Lib_encode("JSONGzip", arr), fail)
Binary_save(arr, fs, fail) == save_with(fs, FALSE, Binary_encode(arr), fail)
BinaryGzip_save(arr, fs, fail) == save_with(fs, TRUE, Binary_encode(arr), fail)
Pickle_save(arr, fs, fail) == save_with(fs, FALSE, Lib_encode("Pickle", arr), fail)
PickleGzip_save(arr, fs, fail) == save_with(fs, TRUE, Lib_encode("PickleGzip", arr), fail)
NPY_save(arr, fs, fail) == save_with(fs, FALSE, Lib_encode("NPY", arr), fail)
NPYCompr_save(arr, fs, fail) == save_with(fs, FALSE, Lib_encode("NPYCompr", arr), fail)
b64Enc_save(arr, fs, fail) == save_with(fs, FALSE, b64Enc_encode(arr), fail)
MatFile_save(arr, fs, fail) == save_with(fs, FALSE, Lib_encode("MatFile", arr), fail)

\* All rows in one record: what FortUnf.save would write without its loop.
FortUnf_encode_oneRecord(arr) == writeReals(arr.flat)

\* for k in range(arr.shape[0]): fh.writeReals(arr[k, :], prec='d')
FortUnf_encode(arr) == Concat([k \in 1..arr.shape[1] |-> writeReals(Row(arr, k))])

FortUnf_save(arr, fs, fail) == save_with(fs, FALSE, FortUnf_encode(arr), fail)

PNG_save(arr, fs, fail) ==
    IF fail = "open" THEN Saved(NotOpened(fs, <<"IOError", "open">>))
    ELSE Saved(WithExit(sync(
            save_array_img(OpenW(fs, FALSE), Lib_encode("PNG", arr), fail), fail)))

save(cls, arr, fs, fail) ==
    CASE cls = "Csv" -> Csv_save(arr, fs, fail)
      [] cls = "CsvGzip" -> CsvGzip_save(arr, fs, fail)
      [] cls = "JSON" -> JSON_save(arr, fs, fail)
      [] cls = "JSONGzip" -> JSONGzip_save(arr, fs, fail)
      [] cls = "Binary" -> Binary_save(arr, fs, fail)
      [] cls = "BinaryGzip" -> BinaryGzip_save(arr, fs, fail)
      [] cls = "Pickle" -> Pickle_save(arr, fs, fail)
      [] cls = "PickleGzip" -> PickleGzip_save(arr, fs, fail)
      [] cls = "NPY" -> NPY_save(arr, fs, fail)
      [] cls = "NPYCompr" -> NPYCompr_save(arr, fs, fail)
      [] cls = "PNG" -> PNG_save(arr, fs, fail)
      [] cls = "b64Enc" -> b64Enc_save(arr, fs, fail)
      [] cls = "FortUnf" -> FortUnf_save(arr, fs, fail)
      [] OTHER -> MatFile_save(arr, fs, fail)

\* What a load hands back: the array (or the exception now propagating), the
\* first error the codec or the file I/O raised, the handles left open.
Result(h, r) ==
    [arr |-> r.arr, exc |-> h.exc, raised |-> h.raised, open |-> h.open]

\* fh.read() and the rest: the whole content through the handle, or an error.
ReadAll(h, fail) ==
    IF fail = "read" THEN Raise(h, <<"IOError", "read">>)
    ELSE IF h.gz /\ ~GzComplete(h.file) THEN Raise(h, <<"IOError", "CRC check failed">>)
    ELSE [h EXCEPT !.buf = IF h.gz THEN GzBody(h.file) ELSE h.file]

\* The decoder each adapter's load calls on the bytes it read.
Decode(cls, bs) ==
    CASE cls \in {"Csv", "CsvGzip"} -> loadtxt(bs)
      [] cls \in {"Binary", "BinaryGzip"} -> Binary_decode(bs)
      [] cls = "b64Enc" -> b64Enc_decode(bs)
      [] OTHER -> Lib_decode(cls, bs)

\* with open(pth, 'r') as fh: return <decoder>(fh)
load_with(cls, fs, gz, fail) ==
    IF fs.file = NoFile
    THEN Result(NotOpened(fs, <<"IOError", "ENOENT">>), Failed(NoExc))
    ELSE LET h == ReadAll(OpenR(fs, gz), fail)
             r == IF h.exc = NoExc THEN Decode(cls, h.buf) ELSE Failed(h.exc)
         IN Result(WithExit(IF r.exc # NoExc THEN Raise(h, r.exc) ELSE h), r)

\* jt_load(pth), np_load(pth) of an .npy file, load_array_img(pth): the
\* library opens and closes the path itself.
load_path(cls, fs, fail) ==
    IF fs.file = NoFile
    THEN Result(NotOpened(fs, <<"IOError", "ENOENT">>), Failed(NoExc))
    ELSE IF fail = "read"
    THEN Result(NotOpened(fs, <<"IOError", "read">>), Failed(NoExc))
    ELSE LET r == Lib_decode(cls, fs.file)
         IN Result(NotOpened(fs, r.exc), r)

\* np_load(pth)['data']: np_load hands back an NpzFile that holds the file
\* open; indexing it decodes the member.  The NpzFile is a temporary, so
\* CPython's reference counting finalises it as the expression ends, on a
\* return and on an exception alike, and its finaliser closes the file.
NPYCompr_load(fs, fail) ==
    IF fs.file = NoFile
    THEN Result(NotOpened(fs, <<"IOError", "ENOENT">>), Failed(NoExc))
    ELSE LET h == ReadAll(OpenR(fs, FALSE), fail)
             r == IF h.exc = NoExc THEN Lib_decode("NPYCompr", h.buf) ELSE Failed(h.exc)
             npz == IF r.exc # NoExc THEN Raise(h, r.exc) ELSE h
         IN Result([npz EXCEPT !.open = 0], r)

\* while True: rows.append(fh.readReals(prec='d')), left by the IOError
\* readReals raises when the bytes run out.
RECURSIVE ReadRows(_)
ReadRows(bs) ==
    IF CanReadReals(bs)
    THEN <<readReals(bs)>> \o ReadRows(SubSeq(bs, RecordLen(bs) + 1, Len(bs)))
    ELSE <<>>

\* FortUnf.load: the open is outside the try; inside it every IOError of
\* readReals, the one at the end of the file or any other, is caught and
\* ends the loop, and array(rows) of the rows read so far is returned.
FortUnf_load(fs, fail) ==
    IF fs.file = NoFile
    THEN Result(NotOpened(fs, <<"IOError", "ENOENT">>), Failed(NoExc))
    ELSE LET h == OpenR(fs, FALSE)
             rows == IF fail = "read" THEN <<>> ELSE ReadRows(h.file)
             caught == IF fail = "read" THEN <<"IOError", "read">> ELSE <<"IOError", "eof">>
         IN Result(WithExit([h EXCEPT !.raised = caught]), Loaded(array(rows)))

load(cls, fs, fail) ==
    CASE cls \in {"Csv", "Binary", "Pickle", "b64Enc", "MatFile"} ->
            load_with(cls, fs, FALSE, fail)
      [] cls \in {"CsvGzip", "BinaryGzip", "PickleGzip"} -> load_with(cls, fs, TRUE, fail)
      [] cls = "FortUnf" -> FortUnf_load(fs, fail)
      [] cls = "NPYCompr" -> NPYCompr_load(fs, fail)
      [] OTHER -> load_path(cls, fs, fail)

\* TimeArrStorage.__str__: the name of the instance's own class.
Str(cls) == cls

\* genericpath.getsize
getsize(f) == Len(f)

\* ---------------------------------------------------------- the program

VARIABLES
    cls,            \* the class of the instance (self.__class__.__name__)
    save_time,      \* self.save_time: <<>> is None, <<t>> a duration
    load_time,      \* self.load_time
    storage_space,  \* self.storage_space
    file,           \* what the operating system holds at pth (NoFile: nothing)
    disk,           \* what of pth has reached the storage device
    clock,          \* time()
    pc,             \* "idle" (in the harness) or the line of time_save/time_load
    last,           \* the wrapper the harness called last
    arg,            \* its array argument (arr of time_save, ref_arr of time_load)
    t0, arr, sm,    \* the wrapper's local variables
    ret,            \* what the last call returned
    exc,            \* the exception the last call raised to the harness
    raised,         \* the first error the codec or file I/O raised in the last call
    openHandles,    \* handles the adapter opened and has not closed
    synced,         \* the last save ran sync on the handle that wrote the data
    trace,          \* the steps the current time_load has performed, in order
    timed,          \* the ticks spent in the current call's load and reduction
    first,          \* what the first completed time_save recorded
    calls           \* harness calls so far

vars == <<cls, save_time, load_time, storage_space, file, disk, clock, pc, last,
          arg, t0, arr, sm, ret, exc, raised, openHandles, synced, trace, timed,
          first, calls>>

inst == <<save_time, load_time, storage_space>>
fsys == <<file, disk>>
locals == <<t0, arr, sm>>

\* TimeArrStorage.__init__, on a path nothing has been written to.
Init ==
    /\ cls \in METHODS
    /\ save_time = <<>> /\ load_time = <<>> /\ storage_space = <<>>
    /\ file = NoFile /\ disk = NoFile
    /\ clock = 0
    /\ pc = "idle" /\ last = "none" /\ arg = NoArray
    /\ t0 = 0 /\ arr = NoArray /\ sm = <<>> /\ ret = <<>>
    /\ exc = NoExc /\ raised = NoExc
    /\ openHandles = 0 /\ synced = FALSE
    /\ trace = <<>> /\ timed = 0 /\ first = <<>>
    /\ calls = 0

\* The harness calls time_save(a, pth) or time_load(a, pth).
Call(name, line, a) ==
    /\ pc = "idle" /\ calls < MaxCalls
    /\ pc' = line /\ last' = name /\ arg' = a
    /\ arr' = NoArray /\ sm' = <<>> /\ ret' = <<>>
    /\ exc' = NoExc /\ raised' = NoExc
    /\ trace' = <<>> /\ timed' = 0
    /\ calls' = calls + 1
    /\ UNCHANGED <<cls, inst, fsys, clock, t0, openHandles, synced, first>>

Call_time_save == \E a \in Arrays : Call("time_save", "ts43", a)
Call_time_load == \E a \in Arrays : Call("time_load", "tl49", a)

\* t0 = time()
TS43 ==
    /\ pc = "ts43"
    /\ t0' = clock /\ pc' = "ts44"
    /\ UNCHANGED <<cls, inst, fsys, clock, last, arg, arr, sm, ret, exc, raised,
                   openHandles, synced, trace, timed, first, calls>>

\* self.save(arr, pth), and an exception of it caught and dropped.
TS44_swallow ==
    /\ pc = "ts44"
    /\ \E d \in 1..MaxTick, fail \in SaveFails :
          LET r == save(cls, arg, [file |-> file, disk |-> disk], fail) IN
          /\ file' = r.file /\ disk' = r.disk
          /\ openHandles' = r.open /\ synced' = r.synced /\ raised' = r.raised
          /\ clock' = clock + d /\ timed' = d
          /\ pc' = "ts45" /\ exc' = exc
    /\ UNCHANGED <<cls, inst, last, arg, locals, ret, trace, first, calls>>

\* self.save(arr, pth): its exception leaves time_save at once.
TS44 ==
    /\ pc = "ts44"
    /\ \E d \in 1..MaxTick, fail \in SaveFails :
          LET r == save(cls, arg, [file |-> file, disk |-> disk], fail) IN
          /\ file' = r.file /\ disk' = r.disk
          /\ openHandles' = r.open /\ synced' = r.synced /\ raised' = r.raised
          /\ clock' = clock + d /\ timed' = d
          /\ IF r.exc # NoExc THEN pc' = "idle" /\ exc' = r.exc
                              ELSE pc' = "ts45" /\ exc' = exc
    /\ UNCHANGED <<cls, inst, last, arg, locals, ret, trace, first, calls>>

\* self.save_time += time() - t0
TS45_accumulate ==
    /\ pc = "ts45"
    /\ save_time' = <<(IF save_time = <<>> THEN 0 ELSE save_time[1]) + (clock - t0)>>
    /\ pc' = "ts46"
    /\ UNCHANGED <<cls, load_time, storage_space, fsys, clock, last, arg, locals, ret,
                   exc, raised, openHandles, synced, trace, timed, first, calls>>

\* self.save_time = time() - t0
TS45 ==
    /\ pc = "ts45"
    /\ save_time' = <<clock - t0>>
    /\ pc' = "ts46"
    /\ UNCHANGED <<cls, load_time, storage_space, fsys, clock, last, arg, locals, ret,
                   exc, raised, openHandles, synced, trace, timed, first, calls>>

\* self.storage_space = getsize(pth), and time_save returns.
TS46 ==
    /\ pc = "ts46"
    /\ pc' = "idle"
    /\ IF file = NoFile
       THEN /\ exc' = <<"OSError", "getsize">>
            /\ UNCHANGED <<storage_space, first>>
       ELSE /\ storage_space' = <<getsize(file)>>
            /\ first' = IF first = <<>> THEN <<save_time[1], getsize(file)>> ELSE first
            /\ exc' = exc
    /\ UNCHANGED <<cls, save_time, load_time, fsys, clock, last, arg, locals, ret,
                   raised, openHandles, synced, trace, timed, calls>>

time_save == TS43 \/ TS44 \/ TS45 \/ TS46

\* t0 = time()
TL49 ==
    /\ pc = "tl49"
    /\ t0' = clock /\ pc' = "tl50"
    /\ trace' = Append(trace, "t0")
    /\ UNCHANGED <<cls, inst, fsys, clock, last, arg, arr, sm, ret, exc, raised,
                   openHandles, synced, timed, first, calls>>

\* arr = self.load(pth): its exception leaves time_load at once.
TL50 ==
    /\ pc = "tl50"
    /\ \E d \in 1..MaxTick, fail \in LoadFails :
          LET r == load(cls, [file |-> file, disk |-> disk], fail) IN
          /\ arr' = r.arr /\ raised' = r.raised /\ openHandles' = r.open
          /\ clock' = clock + d /\ timed' = d
          /\ IF r.exc # NoExc THEN pc' = "idle" /\ exc' = r.exc
                              ELSE pc' = "tl51" /\ exc' = exc
    /\ trace' = Append(trace, "load")
    /\ UNCHANGED <<cls, inst, fsys, last, arg, t0, sm, ret, synced, first, calls>>

\* The reduction left out: nothing forces the loaded data.
TL51_noSum ==
    /\ pc = "tl51"
    /\ pc' = "tl52"
    /\ UNCHANGED <<cls, inst, fsys, clock, last, arg, locals, ret, exc, raised,
                   openHandles, synced, trace, timed, first, calls>>

\* sm = arr.sum()
TL51 ==
    /\ pc = "tl51"
    /\ sm' = <<Sum(arr)>>
    /\ clock' = clock + 1 /\ timed' = timed + 1
    /\ trace' = Append(trace, "sum")
    /\ pc' = "tl52"
    /\ UNCHANGED <<cls, inst, fsys, last, arg, t0, arr, ret, exc, raised,
                   openHandles, synced, first, calls>>

\* self.load_time = time() - t0
TL52 ==
    /\ pc = "tl52"
    /\ load_time' = <<clock - t0>>
    /\ trace' = Append(trace, "load_time")
    /\ pc' = "tl53"
    /\ UNCHANGED <<cls, save_time, storage_space, fsys, clock, last, arg, locals, ret,
                   exc, raised, openHandles, synced, timed, first, calls>>

\* The path left in place.
TL53_keep ==
    /\ pc = "tl53"
    /\ trace' = Append(trace, "remove")
    /\ pc' = "tl54"
    /\ UNCHANGED <<cls, inst, fsys, clock, last, arg, locals, ret, exc, raised,
                   openHandles, synced, timed, first, calls>>

\* remove(pth)
TL53 ==
    /\ pc = "tl53"
    /\ \E d \in 1..MaxTick : clock' = clock + d
    /\ IF file = NoFile
       THEN /\ exc' = <<"OSError", "remove">> /\ raised' = <<"OSError", "remove">>
            /\ pc' = "idle"
            /\ UNCHANGED <<file, trace>>
       ELSE /\ file' = NoFile
            /\ trace' = Append(trace, "remove")
            /\ pc' = "tl54"
            /\ UNCHANGED <<exc, raised>>
    /\ UNCHANGED <<cls, inst, disk, last, arg, locals, ret, openHandles, synced,
                   timed, first, calls>>

\* The comparison made and its outcome ignored.
TL54_silent ==
    /\ pc = "tl54"
    /\ trace' = Append(trace, "verify")
    /\ pc' = "tl55"
    /\ UNCHANGED <<cls, inst, fsys, clock, last, arg, locals, ret, exc, raised,
                   openHandles, synced, timed, first, calls>>

\* assert array_equal(arr, ref_arr), 'load failed for {0:}'.format(self)
TL54 ==
    /\ pc = "tl54"
    /\ trace' = Append(trace, "verify")
    /\ IF array_equal(arr, arg)
       THEN pc' = "tl55" /\ exc' = exc
       ELSE pc' = "idle" /\ exc' = <<"AssertionError", "load failed for", Str(cls)>>
    /\ UNCHANGED <<cls, inst, fsys, clock, last, arg, locals, ret, raised,
                   openHandles, synced, timed, first, calls>>

\* return sm
TL55 ==
    /\ pc = "tl55"
    /\ ret' = sm
    /\ pc' = "idle"
    /\ UNCHANGED <<cls, inst, fsys, clock, last, arg, locals, exc, raised,
                   openHandles, synced, trace, timed, first, calls>>

time_load == TL49 \/ TL50 \/ TL51 \/ TL52 \/ TL53 \/ TL54 \/ TL55

Next == Call_time_save \/ Call_time_load \/ time_save \/ time_load

Spec == Init /\ [][Next]_vars

\* ------------------------------------------------------------- the claims

Returned(name) == pc = "idle" /\ last = name /\ exc = NoExc
Now == [file |-> file, disk |-> disk]
SaveReturned == pc = "ts45"

\* C1 (as claimed): whenever save(A, pth) has returned normally, load(pth)
\* returns an array with A's shape and A's values, for every adapter of
\* METHODS and every 2-D array A.
C1_RoundTrip ==
    SaveReturned =>
        LET r == load(cls, Now, "none")
        IN r.exc = NoExc /\ r.arr.shape = arg.shape /\ r.arr.flat = arg.flat

LoadMismatch ==
    pc = "idle" /\ last = "time_load" /\ arr # NoArray /\ ~array_equal(arr, arg)

\* C2 (as claimed): when load returned an array that differs from the
\* reference, time_load raises 'load failed for <adapter>' and the file
\* still exists when the failure reaches the caller.
C2_FileKeptOnFailure ==
    LoadMismatch =>
        exc = <<"AssertionError", "load failed for", cls>> /\ file # NoFile

\* C2 (amended): when load returned an array that differs from the
\* reference, time_load raises 'load failed for <adapter>' after it has
\* removed the path: the file is gone when the failure reaches the caller.
C2_FileGoneOnFailure ==
    LoadMismatch =>
        /\ exc = <<"AssertionError", "load failed for", cls>>
        /\ file = NoFile
        /\ trace = <<"t0", "load", "sum", "load_time", "remove", "verify">>

C2_Witness ==
    /\ LoadMismatch
    /\ exc = <<"AssertionError", "load failed for", "Binary">>
    /\ arr.shape = <<4, 3>> /\ arg.shape = <<5, 2>>
    /\ file = NoFile

\* C3 (as claimed): after time_load has returned successfully the file does
\* not exist, and removing it was the last step time_load performed.
C3_RemoveIsLastStep ==
    Returned("time_load") =>
        file = NoFile /\ trace # <<>> /\ trace[Len(trace)] = "remove"

\* C3 (amended): after time_load has returned successfully the file does
\* not exist; the removal is followed by one more step, the comparison of
\* the loaded array with the reference, and is the step just before it.
C3_RemoveThenVerify ==
    Returned("time_load") =>
        /\ file = NoFile
        /\ Len(trace) >= 2
        /\ trace[Len(trace) - 1] = "remove"
        /\ trace[Len(trace)] = "verify"

C3_Witness == Returned("time_load") /\ ret # <<>> /\ file = NoFile /\ cls = "NPY"

\* C4 (as claimed): when save has returned normally, sync ran on the handle
\* the data was written through and everything the file holds has reached
\* the storage device: the file on the device is complete and not empty.
C4_Durable ==
    SaveReturned => synced /\ file # NoFile /\ Len(file) > 0 /\ disk = file

\* C5: when time_save has returned, save_time is the duration of that save
\* alone and storage_space the size of the file it left, whatever an earlier
\* call recorded.
C5_Overwrite ==
    Returned("time_save") =>
        save_time = <<timed>> /\ storage_space = <<Len(file)>>

C5_Witness ==
    /\ Returned("time_save")
    /\ calls = 2
    /\ first # <<>>
    /\ first[1] # save_time[1]
    /\ first[2] # storage_space[1]

\* C6 (as claimed): every error the codec or the file I/O raised during the
\* call is the exception the call ended with at the harness.
C6_AllPropagate ==
    (pc = "idle" /\ raised # NoExc) => exc = raised

CaughtByFortUnf ==
    /\ cls = "FortUnf" /\ last = "time_load"
    /\ raised \in {<<"IOError", "read">>, <<"IOError", "eof">>}

\* C6 (amended): every error the codec or the file I/O raised during the
\* call is the exception the call ended with at the harness, a missing path
\* included, except the IOError of readReals inside FortUnf.load, which is
\* caught there (load then returns the rows read so far).
C6_PropagateButFortUnf ==
    /\ (pc = "idle" /\ raised # NoExc /\ ~CaughtByFortUnf) => exc = raised
    /\ (pc = "idle" /\ CaughtByFortUnf) => (exc # raised /\ arr # NoArray)

C6_Witness ==
    /\ pc = "idle" /\ last = "time_load"
    /\ cls = "FortUnf"
    /\ raised = <<"IOError", "ENOENT">>
    /\ exc = raised

Order == <<"t0", "load", "sum", "load_time", "remove", "verify">>

\* C7: the steps of time_load happen in the order timer start, one load,
\* the sum, load_time recorded, removal (then the comparison); load_time is
\* the time of the load and the sum, and it is already recorded, without
\* the time of the removal, when the file is gone.
C7_Order ==
    last = "time_load" =>
        /\ Len(trace) <= Len(Order)
        /\ trace = SubSeq(Order, 1, Len(trace))
        /\ pc \in {"tl53", "tl54", "tl55"} =>
              load_time = <<timed>> /\ sm = <<Sum(arr)>>
        /\ pc \in {"tl54", "tl55"} =>
              file = NoFile /\ clock - t0 > load_time[1]

C7_Witness ==
    /\ pc = "tl54"
    /\ trace = SubSeq(Order, 1, 5)
    /\ load_time = <<3>>
    /\ clock - t0 = 5

HeaderFamily == {"Binary", "BinaryGzip", "b64Enc"}

\* C9: a file Binary, BinaryGzip or b64Enc saved starts with the one line
\* '<dtype> <rows> <cols>' and its newline, the payload follows at once, and
\* load reads the line back into the element type and the two dimensions
\* and returns the array in that shape with the same values.
C9_HeaderRoundTrip ==
    (SaveReturned /\ cls \in HeaderFamily) =>
        LET body == IF cls = "BinaryGzip" THEN GzBody(file) ELSE file
            line == ReadLine(body)
            toks == Split(line)
            r == load(cls, Now, "none")
        IN /\ line[Len(line)] = 10
           /\ Len(toks) = 3
           /\ toks[1] = DtypeName(arg.dtype)
           /\ ParseInt(toks[2]) = arg.shape[1] /\ ParseInt(toks[3]) = arg.shape[2]
           /\ Len(line) = Len(toks[1]) + Len(toks[2]) + Len(toks[3]) + 3
           /\ arg.shape = <<4, 3>> => SubSeq(line, Len(line) - 4, Len(line)) = <<32, 52, 32, 51, 10>>
           /\ AfterLine(body) = IF cls = "b64Enc" THEN urlsafe_b64encode(Data(arg))
                                                 ELSE Data(arg)
           /\ r.exc = NoExc
           /\ r.arr = arg

C9_Witness ==
    /\ SaveReturned /\ cls = "b64Enc"
    /\ arg.shape = <<4, 3>>
    /\ load(cls, Now, "none").arr.shape = <<4, 3>>

\* C10: a file FortUnf saved holds one record per row and nothing else (no
\* header), and load, reading records until readReals fails at the end of
\* the file, returns as many rows as records were written, with the values.
C10_RecordsRoundTrip ==
    (SaveReturned /\ cls = "FortUnf") =>
        LET rows == arg.shape[1]
            cols == arg.shape[2]
            r == load(cls, Now, "none")
        IN /\ Len(file) = rows * (4 + 8 * cols + 4)
           /\ \A k \in 1..rows :
                 SubSeq(file, (k - 1) * (8 + 8 * cols) + 1, (k - 1) * (8 + 8 * cols) + 4)
                    = <<8 * cols, 0, 0, 0>>
           /\ r.exc = NoExc
           /\ r.raised = <<"IOError", "eof">>
           /\ r.arr.shape = <<rows, cols>>
           /\ r.arr.flat = arg.flat

C10_Witness ==
    /\ SaveReturned /\ cls = "FortUnf"
    /\ arg.shape = <<5, 2>>
    /\ load(cls, Now, "none").arr.shape[1] = 5

====
